---------------------------- MODULE Spec2Model ----------------------------
(***************************************************************************)
(* A model of applications/search/aciSearchDb.py: the query-token parser   *)
(* (Term.parse_input, Term.build_search_term), the seven-table inverted    *)
(* index (SearchIndexLookup._index_searchables) and the query executor and *)
(* ranker (SearchIndexLookup.search, _get_terms, _rank_results).           *)
(*                                                                         *)
(* A Python string is a sequence of one-character strings.  A Term key is  *)
(* a sequence of such strings, one per slot: the one-slot keys of the      *)
(* kinds c, a and v are Python strings, the others Python tuples.          *)
(***************************************************************************)
EXTENDS Naturals, Integers, Sequences, FiniteSets, TLC

VARIABLES
    strng,      \* Term.parse_input: the token handed to the parser
    parsed,     \* Term.parse_input: what the call returned or raised
    index,      \* the SearchIndexLookup object: seven tables and ranked_items
    searchables,\* _index_searchables: the list the build in hand was given
    bpc,        \* _index_searchables: position of the build in hand
    call,       \* search: per caller, the position and locals of its call
    sess        \* the SearchSession object, and how its last operation ended

vars == <<strng, parsed, index, searchables, bpc, call, sess>>

-----------------------------------------------------------------------------
(* Characters and strings                                                  *)

Tab == "\t"

\* the characters of the regular expressions' classes [@=#*] (lines 177-178)
MarkerChars == {"@", "=", "#", "*"}

\* line 74: the two characters backslash, star (a regular expression for '*')
any_escape == <<"\\", "*">>
\* line 75
class_escape == <<"#">>
\* line 76
attr_escape == <<"@">>
\* line 77
value_escape == <<"=">>

\* the character a pattern prefix escape_char matches: '\*' matches a star
EscapeLiteral(escape_char) ==
    IF escape_char[1] = "\\" THEN escape_char[2] ELSE escape_char[1]

\* greedy [^@=#*]* from position i of s: the length of the run matched
RECURSIVE RunLen(_, _)
RunLen(s, i) ==
    IF i > Len(s) \/ s[i] \in MarkerChars THEN 0 ELSE 1 + RunLen(s, i + 1)

\* Leftmost with the last position for the first
Rightmost(P) == IF P = {} THEN 0 ELSE CHOOSE i \in P : \A j \in P : i >= j

\* re.search: the leftmost position of s in P, 0 when there is none (None)
Leftmost(P) == IF P = {} THEN 0 ELSE CHOOSE i \in P : \A j \in P : i <= j

\* line 177: re.search(escape_char + '([^@=#*]+)[@=#\*]', strng)
MidMatch(escape_char, s) ==
    Leftmost({i \in 1..Len(s) :
                /\ s[i] = EscapeLiteral(escape_char)
                /\ RunLen(s, i + 1) >= 1
                /\ i + RunLen(s, i + 1) + 1 <= Len(s)})

\* line 178: re.search(escape_char + '([^@=#*]*)$', strng)
EndMatch(escape_char, s) ==
    Leftmost({i \in 1..Len(s) :
                /\ s[i] = EscapeLiteral(escape_char)
                /\ i + RunLen(s, i + 1) = Len(s)})

\* group(1) of a match at position i
Group1(s, i) == SubSeq(s, i + 1, i + RunLen(s, i + 1))

\* build_search_term with line 187 taken as "valid = True"
build_search_term_valid_when_empty(escape_char, s) ==
    LET mid == MidMatch(escape_char, s)
        end == EndMatch(escape_char, s)
    IN  IF mid # 0
          THEN [valid |-> Len(Group1(s, mid)) > 0, term_string |-> Group1(s, mid)]
          ELSE IF end # 0
            THEN [valid |-> TRUE, term_string |-> Group1(s, end)]
            ELSE [valid |-> FALSE, term_string |-> <<>>]

\* Term.build_search_term (lines 168-189): (valid, term_string)
build_search_term(escape_char, s) ==
    LET mid == MidMatch(escape_char, s)
        end == EndMatch(escape_char, s)
    IN  IF mid # 0
          THEN [valid |-> Len(Group1(s, mid)) > 0, term_string |-> Group1(s, mid)]
          ELSE IF end # 0
            THEN [valid |-> Len(Group1(s, end)) > 0, term_string |-> Group1(s, end)]
            ELSE [valid |-> FALSE, term_string |-> <<>>]

-----------------------------------------------------------------------------
(* Term                                                                    *)

\* Term.__init__ (lines 54-59)
Term(key, term_type, points) == [key |-> key, type |-> term_type, points |-> points]

\* what a call returns, or the exception it raised
Returned(v) == [raised |-> "none", value |-> v]
Raised(e) == [raised |-> e, value |-> <<>>]

\* new_string with lines 79-80 left out
new_string_as_given(s) == s

\* lines 79-82: a '*' is put in front unless strng[0] is one of the listed strings
new_string(s) ==
    IF <<s[1]>> \notin {any_escape, class_escape, attr_escape, value_escape}
      THEN <<"*">> \o s
      ELSE s

\* class_any_terms with the weight of lines 100 and 109
class_any_terms_weight_4(class_str, any_str) ==
    <<Term(<<class_str, any_str>>, "ca", 4), Term(<<class_str, any_str>>, "cv", 4)>>

\* lines 114-118: the Terms of a class segment with a wildcard segment
class_any_terms(class_str, any_str) ==
    <<Term(<<class_str, any_str>>, "ca", 3), Term(<<class_str, any_str>>, "cv", 3)>>

\* lines 84-165: the cascade over the four extracted segments
Disambiguate(c, a, v, y) ==
    IF c.valid /\ a.valid /\ v.valid
      THEN <<Term(<<c.term_string, a.term_string, v.term_string>>, "cav", 8)>>
    ELSE IF c.valid /\ a.valid
      THEN IF y.valid
             THEN <<Term(<<c.term_string, a.term_string, y.term_string>>, "cav", 6)>>
             ELSE <<Term(<<c.term_string, a.term_string>>, "ca", 4)>>
    ELSE IF c.valid /\ v.valid
      THEN IF y.valid
             THEN <<Term(<<c.term_string, y.term_string, v.term_string>>, "cav", 6)>>
             ELSE <<Term(<<c.term_string, v.term_string>>, "cv", 4)>>
    ELSE IF c.valid /\ y.valid
      THEN class_any_terms(c.term_string, y.term_string)
    ELSE IF a.valid /\ v.valid
      THEN IF y.valid
             THEN <<Term(<<y.term_string, a.term_string, v.term_string>>, "cav", 6)>>
             ELSE <<Term(<<a.term_string, v.term_string>>, "av", 4)>>
    ELSE IF a.valid /\ y.valid
      THEN <<Term(<<y.term_string, a.term_string>>, "ca", 3),
             Term(<<a.term_string, y.term_string>>, "av", 3)>>
    ELSE IF v.valid /\ y.valid
      THEN <<Term(<<y.term_string, v.term_string>>, "cv", 3),
             Term(<<y.term_string, v.term_string>>, "av", 3)>>
    ELSE IF c.valid THEN <<Term(<<c.term_string>>, "c", 2)>>
    ELSE IF a.valid THEN <<Term(<<a.term_string>>, "a", 2)>>
    ELSE IF v.valid THEN <<Term(<<v.term_string>>, "v", 2)>>
    ELSE IF y.valid
      THEN <<Term(<<y.term_string>>, "c", 1),
             Term(<<y.term_string>>, "a", 1),
             Term(<<y.term_string>>, "v", 1)>>
    ELSE <<>>

\* Term.parse_input (lines 62-165); strng[0] of an empty string raises IndexError
parse_input(s) ==
    IF Len(s) = 0
      THEN Raised("IndexError")
      ELSE LET ns == new_string(s)
           IN  Returned(Disambiguate(build_search_term(class_escape, ns),
                                     build_search_term(attr_escape, ns),
                                     build_search_term(value_escape, ns),
                                     build_search_term(any_escape, ns)))

-----------------------------------------------------------------------------
(* SearchIndexLookup: the index                                            *)

\* the dict with no entries
EmptyDict == <<>>

\* dict.get(key) (lines 291-305): None on a miss, else the stored set
None == [hit |-> FALSE, ids |-> {}]
Get(table, key) ==
    IF key \in DOMAIN table THEN [hit |-> TRUE, ids |-> table[key]] ELSE None

\* AddAll with "table[key] = set([uid])" for "table[key].add(uid)"
AddAll_overwriting(table, keys, uid) ==
    [k \in DOMAIN table \cup keys |-> IF k \in keys THEN {uid} ELSE table[k]]

\* "if key not in table: table[key] = set([])" then "table[key].add(uid)", for
\* every key of keys (the loops of lines 234-267; their order does not matter)
AddAll(table, keys, uid) ==
    [k \in DOMAIN table \cup keys |->
        (IF k \in DOMAIN table THEN table[k] ELSE {})
            \cup (IF k \in keys THEN {uid} ELSE {})]

\* ResetTable with line 218 left out
ResetTable_keeping_by_class(idx, n) ==
    CASE n = 1 -> [idx EXCEPT !.by_attr = EmptyDict]
      [] n = 2 -> [idx EXCEPT !.by_value = EmptyDict]
      [] n = 3 -> [idx EXCEPT !.by_attr_value = EmptyDict]
      [] n = 4 -> idx
      [] n = 5 -> [idx EXCEPT !.by_class_value = EmptyDict]
      [] n = 6 -> [idx EXCEPT !.by_class_attr = EmptyDict]
      [] n = 7 -> [idx EXCEPT !.by_class_attr_value = EmptyDict]

\* lines 215-221: the seven tables are emptied, one assignment each;
\* ResetTable(idx, n) is the n-th of these assignments
ResetTable(idx, n) ==
    CASE n = 1 -> [idx EXCEPT !.by_attr = EmptyDict]
      [] n = 2 -> [idx EXCEPT !.by_value = EmptyDict]
      [] n = 3 -> [idx EXCEPT !.by_attr_value = EmptyDict]
      [] n = 4 -> [idx EXCEPT !.by_class = EmptyDict]
      [] n = 5 -> [idx EXCEPT !.by_class_value = EmptyDict]
      [] n = 6 -> [idx EXCEPT !.by_class_attr = EmptyDict]
      [] n = 7 -> [idx EXCEPT !.by_class_attr_value = EmptyDict]

\* the number of assignments of lines 215-221
NumTables == 7

RECURSIVE ResetFrom(_, _)
ResetFrom(idx, n) ==
    IF n > NumTables THEN idx ELSE ResetFrom(ResetTable(idx, n), n + 1)

\* lines 225-267: one iteration of the loop over searchables
IndexOne(idx, searchable) ==
    LET atk_class == searchable.object_class
        uid == searchable.uid
    IN  [idx EXCEPT
          !.by_class = AddAll(@, {<<atk_class>>}, uid),
          !.by_attr = AddAll(@, {<<a>> : a \in searchable.attr}, uid),
          !.by_class_attr =
              AddAll(@, {<<atk_class, a>> : a \in searchable.attr}, uid),
          !.by_value = AddAll(@, {<<v>> : v \in searchable.value}, uid),
          !.by_class_value =
              AddAll(@, {<<atk_class, v>> : v \in searchable.value}, uid),
          !.by_attr_value = AddAll(@, searchable.attr_value, uid),
          !.by_class_attr_value =
              AddAll(@, {<<atk_class, av[1], av[2]>> : av \in searchable.attr_value},
                     uid)]

\* lines 224-267: the iterations for the positions lo..hi of the list, in
\* order: those of the first half, then, on the index they leave, those of
\* the second.  by_class has a key after any iteration (line 236), so the
\* test holds; it makes the first half be evaluated before the second is
\* entered
RECURSIVE IndexRange(_, _, _, _)
IndexRange(idx, list, lo, hi) ==
    IF lo > hi THEN idx
    ELSE IF lo = hi THEN IndexOne(idx, list[lo])
    ELSE LET mid == (lo + hi) \div 2
             first == IndexRange(idx, list, lo, mid)
         IN  IF DOMAIN first.by_class # {}
               THEN IndexRange(first, list, mid + 1, hi)
               ELSE first

\* lines 224-267: the loop, from position n of the list
IndexFrom(idx, list, n) == IndexRange(idx, list, n, Len(list))

\* SearchIndexLookup._index_searchables (lines 207-270), start to end
index_searchables(idx, list) == IndexFrom(ResetFrom(idx, 1), list, 1)

\* SearchIndexLookup.__init__ (lines 198-205); ranked_items is set by the
\* first _rank_results
NewIndex ==
    [by_attr |-> EmptyDict, by_value |-> EmptyDict, by_class |-> EmptyDict,
     by_attr_value |-> EmptyDict, by_class_value |-> EmptyDict,
     by_class_attr |-> EmptyDict, by_class_attr_value |-> EmptyDict,
     ranked_items |-> EmptyDict]

-----------------------------------------------------------------------------
(* SearchIndexLookup: the query                                            *)

\* the characters str.strip() removes
Whitespace == {" ", Tab, "\n", "\r", "\f"}

\* str.strip() (line 314)
RECURSIVE strip(_)
strip(s) ==
    IF Len(s) = 0 THEN s
    ELSE IF s[1] \in Whitespace THEN strip(Tail(s))
    ELSE IF s[Len(s)] \in Whitespace THEN strip(SubSeq(s, 1, Len(s) - 1))
    ELSE s

\* str.split(' ') (line 314): a cut at every space, empty pieces kept
RECURSIVE split(_, _)
split(s, cur) ==
    IF Len(s) = 0 THEN <<cur>>
    ELSE IF s[1] = " " THEN <<cur>> \o split(Tail(s), <<>>)
    ELSE split(Tail(s), Append(cur, s[1]))

\* lines 315-318: the loop over the tokens; an exception of parse_input ends it
RECURSIVE ExtendAll(_, _)
ExtendAll(tokens, result) ==
    IF Len(tokens) = 0 THEN Returned(result)
    ELSE LET got == parse_input(Head(tokens))
         IN  IF got.raised # "none" THEN got
             ELSE ExtendAll(Tail(tokens), result \o got.value)

\* SearchIndexLookup._get_terms (lines 312-318)
get_terms(term_string) == ExtendAll(split(strip(term_string), <<>>), <<>>)

\* lines 290-305: the table a Term's type selects, probed with its key
Lookup(idx, term) ==
    CASE term.type = "cav" -> Get(idx.by_class_attr_value, term.key)
      [] term.type = "ca" -> Get(idx.by_class_attr, term.key)
      [] term.type = "cv" -> Get(idx.by_class_value, term.key)
      [] term.type = "av" -> Get(idx.by_attr_value, term.key)
      [] term.type = "c" -> Get(idx.by_class, term.key)
      [] term.type = "a" -> Get(idx.by_attr, term.key)
      [] term.type = "v" -> Get(idx.by_value, term.key)

\* lines 288-305: results, a list of (term, match set or None)
LookupAll(idx, terms) ==
    [i \in 1..Len(terms) |-> [term |-> terms[i], found |-> Lookup(idx, terms[i])]]

\* repr of a character inside a quoted string
ReprChar(c) ==
    CASE c = Tab -> <<"\\", "t">>
      [] c = "\\" -> <<"\\", "\\">>
      [] OTHER -> <<c>>

RECURSIVE ReprChars(_)
ReprChars(s) == IF Len(s) = 0 THEN <<>> ELSE ReprChar(Head(s)) \o ReprChars(Tail(s))

\* repr of a string: quoted
Repr(s) == <<"'">> \o ReprChars(s) \o <<"'">>

RECURSIVE ReprSlots(_)
ReprSlots(key) ==
    IF Len(key) = 1 THEN Repr(key[1])
    ELSE Repr(key[1]) \o <<",", " ">> \o ReprSlots(Tail(key))

\* str(term.key) (line 350): a string as it is, a tuple as "('a', 'b')"
StrKey(term) ==
    IF term.type \in {"c", "a", "v"} THEN term.key[1]
    ELSE <<"(">> \o ReprSlots(term.key) \o <<")">>

\* lines 327-330: the union of the match sets that are not None
MasterItems(unranked_results) ==
    UNION {unranked_results[i].found.ids :
             i \in {j \in 1..Len(unranked_results) : unranked_results[j].found.hit}}

\* line 335: a fresh entry of ranked_items
ZeroItem == [pscore |-> 0, sscore |-> 0, terms |-> {}]

\* lines 333-335: every item of master_items gets a fresh entry
FillItems(items, master_items) ==
    [x \in DOMAIN items \cup master_items |->
        IF x \in master_items THEN ZeroItem ELSE items[x]]

\* ScoreFrom with "=" for "+=" in line 349
RECURSIVE ScoreFrom_assigning(_, _, _, _)
ScoreFrom_assigning(item, atk_obj, unranked_results, n) ==
    IF n > Len(unranked_results) THEN item
    ELSE LET result == unranked_results[n]
         IN  IF result.found.hit /\ atk_obj \in result.found.ids
               THEN ScoreFrom_assigning(
                        [item EXCEPT !.pscore = result.term.points,
                                     !.terms = @ \cup {StrKey(result.term)}],
                        atk_obj, unranked_results, n + 1)
               ELSE ScoreFrom_assigning(item, atk_obj, unranked_results, n + 1)

\* lines 346-350 for one atk_obj: the loop over unranked_results, from result n
RECURSIVE ScoreFrom(_, _, _, _)
ScoreFrom(item, atk_obj, unranked_results, n) ==
    IF n > Len(unranked_results) THEN item
    ELSE LET result == unranked_results[n]
         IN  IF result.found.hit /\ atk_obj \in result.found.ids
               THEN ScoreFrom([item EXCEPT !.pscore = @ + result.term.points,
                                           !.terms = @ \cup {StrKey(result.term)}],
                              atk_obj, unranked_results, n + 1)
               ELSE ScoreFrom(item, atk_obj, unranked_results, n + 1)

\* lines 345-350: the loop over master_items (each item is scored on its own)
ScoreItems(items, master_items, unranked_results) ==
    [x \in DOMAIN items |->
        IF x \in master_items
          THEN ScoreFrom(items[x], x, unranked_results, 1)
          ELSE items[x]]

\* the code point of a character (ord)
Ord(c) ==
    CASE c = "a" -> 97 [] c = "b" -> 98 [] c = "c" -> 99
      [] c = "x" -> 120 [] c = "y" -> 121 [] c = "/" -> 47 [] c = "-" -> 45

\* s < t on strings: by code point, a proper prefix first
RECURSIVE StrLess(_, _)
StrLess(s, t) ==
    IF Len(t) = 0 THEN FALSE
    ELSE IF Len(s) = 0 THEN TRUE
    ELSE IF Ord(s[1]) # Ord(t[1]) THEN Ord(s[1]) < Ord(t[1])
    ELSE StrLess(Tail(s), Tail(t))

\* SortKey without the minus signs of line 363
SortKey_ascending(items, x) == <<items[x].pscore, items[x].sscore, x>>

\* line 363: the sort key of item x
SortKey(items, x) == <<0 - items[x].pscore, 0 - items[x].sscore, x>>

\* k1 < k2 on the tuples of line 363
KeyLess(k1, k2) ==
    \/ k1[1] < k2[1]
    \/ k1[1] = k2[1] /\ k1[2] < k2[2]
    \/ k1[1] = k2[1] /\ k1[2] = k2[2] /\ StrLess(k1[3], k2[3])

\* line 362: sorted(self.ranked_items, key=...), the keys being distinct:
\* the item at position i is the one with i - 1 items of lesser key
Sorted(items, S) ==
    LET keyed == {<<SortKey(items, x), x>> : x \in S}
        placed == {<<1 + Cardinality({q \in keyed : KeyLess(q[1], p[1])}), p[2]>> :
                     p \in keyed}
    IN  [i \in 1..Cardinality(S) |-> (CHOOSE p \in placed : p[1] = i)[2]]

\* line 371: the loop ends once count reaches this many records
MaxResults == 100

\* lines 366-369: the record of one result; terms is a list in no stated order
ResultRecord(items, uid) ==
    [pscore |-> items[uid].pscore, sscore |-> items[uid].sscore,
     terms |-> items[uid].terms, uid |-> uid]

\* Respond with "count > 100" for "count >= 100" in line 371
Respond_one_more(items) ==
    LET order == Sorted(items, DOMAIN items)
        kept == SubSeq(order, 1, IF Len(order) < MaxResults + 1 THEN Len(order)
                                                                ELSE MaxResults + 1)
    IN  <<[i \in 1..Len(kept) |-> ResultRecord(items, kept[i])],
          Cardinality(DOMAIN items)>>

\* lines 360-374: resp and the value returned
Respond(items) ==
    LET order == Sorted(items, DOMAIN items)
        kept == SubSeq(order, 1, IF Len(order) < MaxResults THEN Len(order)
                                                            ELSE MaxResults)
    IN  <<[i \in 1..Len(kept) |-> ResultRecord(items, kept[i])],
          Cardinality(DOMAIN items)>>

\* SearchIndexLookup._rank_results (lines 327-350), start to end: the new
\* ranked_items
RankedItems(unranked_results) ==
    LET master_items == MasterItems(unranked_results)
    IN  ScoreItems(FillItems(EmptyDict, master_items), master_items,
                   unranked_results)

\* search with "table[term.key]" for "table.get(term.key)" in lines 291-305:
\* a miss raises KeyError
search_raising_on_miss(idx, term_string) ==
    LET terms == get_terms(term_string)
        results == LookupAll(idx, terms.value)
        items == RankedItems(results)
    IN  IF terms.raised # "none"
          THEN [self |-> idx, ret |-> terms]
        ELSE IF \E i \in 1..Len(results) : ~results[i].found.hit
          THEN [self |-> idx, ret |-> Raised("KeyError")]
          ELSE [self |-> [idx EXCEPT !.ranked_items = items],
                ret |-> Returned(Respond(items))]

\* SearchIndexLookup.search (lines 280-310), start to end: the object as the
\* call leaves it (self) and what the call returns or raises (ret); a call
\* that raises ends in _get_terms, before ranked_items is touched
search(idx, term_string) ==
    LET terms == get_terms(term_string)
        items == RankedItems(LookupAll(idx, terms.value))
    IN  IF terms.raised # "none"
          THEN [self |-> idx, ret |-> terms]
          ELSE [self |-> [idx EXCEPT !.ranked_items = items],
                ret |-> Returned(Respond(items))]

-----------------------------------------------------------------------------
(* Inputs                                                                  *)

\* the longest list of records a build is given
MaxRecords == 2
\* the most tokens of a query
MaxQueryTokens == 2

\* the dn of a record
Uids == {<<"a">>, <<"a", "b">>, <<"b">>}

\* what a searchable exposes besides its dn: object_class, attr, value,
\* attr_value (the second body has a value that no pair carries)
Bodies ==
    {[object_class |-> <<"x">>, attr |-> {<<"x">>, <<"y">>}, value |-> {<<"y">>},
      attr_value |-> {<< <<"x">>, <<"y">> >>, << <<"y">>, <<"y">> >>}],
     [object_class |-> <<"y">>, attr |-> {<<"x">>}, value |-> {<<"x">>, <<"y">>},
      attr_value |-> {<< <<"x">>, <<"x">> >>}]}

Searchables ==
    {[object_class |-> b.object_class, attr |-> b.attr, value |-> b.value,
      attr_value |-> b.attr_value, uid |-> u] : b \in Bodies, u \in Uids}

\* the lists a build is given: the dn is unique in a list
SearchableLists ==
    {l \in UNION {[1..n -> Searchables] : n \in 0..MaxRecords} :
        \A i, j \in 1..Len(l) : l[i].uid = l[j].uid => i = j}

\* the tokens queries are made of: their Terms are of every kind, and the
\* last token has none
QueryTokens ==
    {<<"x">>, <<"=", "x">>, <<"#", "x", "*", "y">>, <<"@", "x", "=", "y">>,
     <<"#", "x", "@", "y", "=", "y">>, <<"#">>}

RECURSIVE Join(_)
Join(tokens) ==
    IF Len(tokens) = 0 THEN <<>>
    ELSE IF Len(tokens) = 1 THEN tokens[1]
    ELSE tokens[1] \o <<" ">> \o Join(Tail(tokens))

\* the queries: tokens joined by single spaces, and strings of spaces alone
Queries ==
    {Join(l) : l \in UNION {[1..n -> QueryTokens] : n \in 0..MaxQueryTokens}}
        \cup {[i \in 1..n |-> " "] : n \in 0..MaxQueryTokens}

\* the longest token handed to the parser
MaxTokenLen == 7

\* the characters of those tokens: the four markers and one other
TokenChars == {"#", "@", "=", "*", "x"}

\* the tokens of the documentation (line 287 and the README's examples)
SampleTokens ==
    {<<"l", "e", "a", "f">>,
     <<"#", "T", "e", "n", "a", "n", "t", "*">>,
     <<"#", "T", "e", "n", "a", "n", "t", "@", "n", "a", "m", "e", "=", "A", "P", "P", "1">>}

Tokens == UNION {[1..n -> TokenChars] : n \in 0..MaxTokenLen} \cup SampleTokens

\* the lists and the queries of the interleaved calls
ConcLists ==
    {l \in SearchableLists :
        /\ Len(l) >= 1
        /\ \A i \in 1..Len(l) : l[i].uid # <<"a", "b">>
        /\ \A i, j \in 1..Len(l) : i < j => StrLess(l[i].uid, l[j].uid)
        /\ \A i \in 1..Len(l) : l[i].object_class = <<"x">> <=> l[i].uid = <<"a">>}

ConcQueries == {<<"#", "x", "*", "y">>, <<"@", "x", "=", "x">>}

-----------------------------------------------------------------------------
(* SearchSession                                                           *)

\* the most accesses of the session property in a run
MaxAccesses == 3

\* None, for args, for args.login and for _session
NoArgs == [is_none |-> TRUE, url |-> "", login |-> "", password |-> ""]
NoLogin == ""
NoSession == [is_none |-> TRUE, url |-> "", login |-> "", password |-> "",
              logged_in |-> FALSE, made |-> 0]

\* the credentials handed to set_login_credentials: url, login (which may be
\* None) and password
ArgsSet ==
    {[is_none |-> FALSE, url |-> "apic", login |-> l, password |-> p] :
        l \in {NoLogin, "admin", "guest"}, p \in {"p", "q"}}

\* the timeouts handed to set_login_credentials (2 by default, line 602)
Timeouts == {1, 2}

\* how Session.login ends (lines 629, 634): a response that is ok, or one
\* that is not
LoginOutcomes == {"ok", "not_ok"}

\* line 628: Session(url, login, password); made tells the accesses made
\* before the one that constructed it, logged_in that its login was ok
Session(args, made, logged_in) ==
    [is_none |-> FALSE, url |-> args.url, login |-> args.login,
     password |-> args.password, logged_in |-> logged_in, made |-> made]

\* SearchSession.__init__ (lines 590-600) with no args; op is the last
\* operation, ret what the last access returned or raised, logins the calls
\* of Session.login so far, accesses the accesses so far
NewSearchSession ==
    [session |-> NoSession, args |-> NoArgs, timeout |-> 0,
     op |-> "init", ret |-> [raised |-> "pending", value |-> NoSession],
     login_called |-> FALSE, accesses |-> 0]

\* SearchSession._clear_switch_info (lines 638-643)
clear_switch_info(self) == [self EXCEPT !.session = NoSession]

\* SearchSession.set_login_credentials (lines 602-616)
set_login_credentials(self, args, timeout) ==
    [clear_switch_info([self EXCEPT !.args = args, !.timeout = timeout])
        EXCEPT !.op = "set_login_credentials", !.login_called = FALSE]

\* the session property (lines 618-636), the login ending with outcome.
\* Line 628 stores the new Session in self._session before line 629 logs
\* in, and nothing takes it out again when the response is not ok.
session(self, outcome) ==
    LET here == [self EXCEPT !.op = "session", !.accesses = @ + 1]
        made == Session(self.args, self.accesses, outcome = "ok")
    IN  IF ~self.session.is_none
          THEN [here EXCEPT !.ret = [raised |-> "none", value |-> self.session],
                            !.login_called = FALSE]
        ELSE IF self.args.is_none \/ self.args.login = NoLogin
          THEN [here EXCEPT !.ret = [raised |-> "LoginError", value |-> NoSession],
                            !.login_called = FALSE]
          ELSE [here EXCEPT
                  !.session = made,
                  !.login_called = TRUE,
                  !.ret = IF outcome = "ok"
                            THEN [raised |-> "none", value |-> made]
                            ELSE [raised |-> "LoginError", value |-> NoSession]]

-----------------------------------------------------------------------------
(* The calls                                                               *)

Callers == {1, 2}

\* a caller's call of search: where it is (at), its argument and locals, the
\* value it ended with (ret), and the lists of the builds that were published
\* or in hand at some time during the call (lists)
Idle ==
    [at |-> "idle", term_string |-> <<>>, terms |-> <<>>,
     unranked_results |-> <<>>, master_items |-> {}, todo |-> {},
     ret |-> Returned(<<>>), lists |-> {}]

\* a call of search(term_string) that has ended with ret
Ended(term_string, ret, lists) ==
    [Idle EXCEPT !.at = "ended", !.term_string = term_string, !.ret = ret,
                 !.lists = lists]

\* no build in hand; done is the list of the last build that ended, and
\* rebuilt tells that this build began on tables that held records
NoBuild(done, rebuilt) == [at |-> "idle", n |-> 0, done |-> done, rebuilt |-> rebuilt]

NoToken == <<"none">>
NotCalled == [raised |-> "pending", value |-> <<>>]

Init ==
    /\ strng = NoToken
    /\ parsed = NotCalled
    /\ index = NewIndex
    /\ searchables = <<>>
    /\ bpc = NoBuild(<<>>, FALSE)
    /\ call = [c \in Callers |-> Idle]
    /\ sess = NewSearchSession

\* _index_searchables(list), start to end.  The caller loads, then queries
\* (SearchDb.load_db, SearchDb.search; main): no search has been made yet
Build(list) ==
    /\ \A c \in Callers : call[c].at = "idle"
    /\ index' = index_searchables(index, list)
    /\ searchables' = list
    /\ bpc' = NoBuild(list, index.by_class # EmptyDict)
    /\ UNCHANGED <<sess, strng, parsed, call>>

\* search(term_string), start to end, by caller 1: the one query of a run
\* (main, lines 698-704), which the caller may repeat
Search(term_string) ==
    LET done == search(index, term_string)
    IN  /\ \/ call[1].at = "idle"
           \/ call[1].at = "ended" /\ call[1].term_string = term_string
        /\ call' = [call EXCEPT ![1] = Ended(term_string, done.ret, {bpc.done})]
        /\ index' = done.self
        /\ UNCHANGED <<sess, strng, parsed, searchables, bpc>>

Next ==
    \/ \E list \in SearchableLists : Build(list)
    \/ \E term_string \in Queries : Search(term_string)

Spec == Init /\ [][Next]_vars

-----------------------------------------------------------------------------
(* The parser on its own                                                   *)

InitParse ==
    /\ strng \in Tokens
    /\ parsed = NotCalled
    /\ index = NewIndex
    /\ searchables = <<>>
    /\ bpc = NoBuild(<<>>, FALSE)
    /\ call = [c \in Callers |-> Idle]
    /\ sess = NewSearchSession

\* Term.parse_input(strng)
Parse ==
    /\ parsed = NotCalled
    /\ parsed' = parse_input(strng)
    /\ UNCHANGED <<sess, strng, index, searchables, bpc, call>>

NextParse == Parse

SpecParse == InitParse /\ [][NextParse]_vars

-----------------------------------------------------------------------------
(* Calls whose steps interleave.  A step is a statement or one iteration   *)
(* of a loop; a thread switch inside a step is left out.  In SpecRace one  *)
(* thread builds while caller 1 searches; in SpecConc the index is built   *)
(* first and two callers search.                                           *)

\* the lists published or in hand now
ListsNow == {bpc.done} \cup (IF bpc.at = "idle" THEN {} ELSE {searchables})

\* lines 213-214: _index_searchables(list) is entered
BuildBegin(list) ==
    /\ bpc.at = "idle"
    /\ searchables' = list
    /\ bpc' = [bpc EXCEPT !.at = "reset", !.n = 1,
                           !.rebuilt = index.by_class # EmptyDict]
    /\ call' = [c \in Callers |->
                  IF call[c].at \in {"idle", "ended"} THEN call[c]
                  ELSE [call[c] EXCEPT !.lists = @ \cup {list}]]
    /\ UNCHANGED <<sess, strng, parsed, index>>

\* lines 215-221: one of the seven assignments
BuildReset ==
    /\ bpc.at = "reset"
    /\ index' = ResetTable(index, bpc.n)
    /\ bpc' = IF bpc.n = NumTables THEN [bpc EXCEPT !.at = "loop", !.n = 1]
                                   ELSE [bpc EXCEPT !.n = @ + 1]
    /\ UNCHANGED <<sess, strng, parsed, searchables, call>>

\* lines 224-267: one iteration of the loop
BuildIndex ==
    /\ bpc.at = "loop"
    /\ bpc.n <= Len(searchables)
    /\ index' = IndexOne(index, searchables[bpc.n])
    /\ bpc' = [bpc EXCEPT !.n = @ + 1]
    /\ UNCHANGED <<sess, strng, parsed, searchables, call>>

\* lines 269-270: the loop is over and the call returns
BuildEnd ==
    /\ bpc.at = "loop"
    /\ bpc.n > Len(searchables)
    /\ bpc' = NoBuild(searchables, bpc.rebuilt)
    /\ UNCHANGED <<sess, strng, parsed, index, searchables, call>>

\* lines 285-288: search(term_string) is entered and _get_terms called
SearchBegin(c, term_string) ==
    LET terms == get_terms(term_string)
    IN  /\ call[c].at \in {"idle", "ended"}
        /\ call' = [call EXCEPT ![c] =
                      IF terms.raised # "none"
                        THEN Ended(term_string, terms, ListsNow)
                        ELSE [Idle EXCEPT !.at = "lookup",
                                          !.term_string = term_string,
                                          !.terms = terms.value,
                                          !.lists = ListsNow]]
        /\ UNCHANGED <<sess, strng, parsed, index, searchables, bpc>>

\* lines 289-305: one iteration of the loop over terms
SearchLookup(c) ==
    /\ call[c].at = "lookup"
    /\ Len(call[c].unranked_results) < Len(call[c].terms)
    /\ call' = [call EXCEPT ![c].unranked_results =
                  LET term == call[c].terms[Len(call[c].unranked_results) + 1]
                  IN  Append(@, [term |-> term, found |-> Lookup(index, term)])]
    /\ UNCHANGED <<sess, strng, parsed, index, searchables, bpc>>

\* lines 307, 327-332: _rank_results is entered, master_items collected and
\* self.ranked_items set to a new dict
RankBegin(c) ==
    /\ call[c].at = "lookup"
    /\ Len(call[c].unranked_results) = Len(call[c].terms)
    /\ call' = [call EXCEPT ![c].at = "fill",
                            ![c].master_items = MasterItems(call[c].unranked_results)]
    /\ index' = [index EXCEPT !.ranked_items = EmptyDict]
    /\ UNCHANGED <<sess, strng, parsed, searchables, bpc>>

\* lines 333-335: the loop that gives every item its entry
RankFill(c) ==
    /\ call[c].at = "fill"
    /\ index' = [index EXCEPT !.ranked_items = FillItems(@, call[c].master_items)]
    /\ call' = [call EXCEPT ![c].at = "score", ![c].todo = call[c].master_items]
    /\ UNCHANGED <<sess, strng, parsed, searchables, bpc>>

\* lines 345-350: one iteration of the loop over master_items;
\* self.ranked_items[atk_obj] raises KeyError when the entry is not there
RankScore(c) ==
    /\ call[c].at = "score"
    /\ \E atk_obj \in call[c].todo :
         IF atk_obj \in DOMAIN index.ranked_items
           THEN /\ index' = [index EXCEPT !.ranked_items[atk_obj] =
                               ScoreFrom(@, atk_obj, call[c].unranked_results, 1)]
                /\ call' = [call EXCEPT ![c].todo = @ \ {atk_obj}]
           ELSE /\ index' = index
                /\ call' = [call EXCEPT ![c] =
                              Ended(call[c].term_string, Raised("KeyError"),
                                    call[c].lists)]
    /\ UNCHANGED <<sess, strng, parsed, searchables, bpc>>

\* lines 360-374: the sort, resp, and the return
RankRespond(c) ==
    /\ call[c].at = "score"
    /\ call[c].todo = {}
    /\ call' = [call EXCEPT ![c] =
                  Ended(call[c].term_string, Returned(Respond(index.ranked_items)),
                        call[c].lists)]
    /\ UNCHANGED <<sess, strng, parsed, index, searchables, bpc>>

NextRace ==
    \/ \E list \in ConcLists : BuildBegin(list)
    \/ BuildReset
    \/ BuildIndex
    \/ BuildEnd
    \/ \E term_string \in ConcQueries : SearchBegin(1, term_string)
    \/ SearchLookup(1)
    \/ RankBegin(1)
    \/ RankFill(1)
    \/ RankScore(1)
    \/ RankRespond(1)

SpecRace == Init /\ [][NextRace]_vars

NextConc ==
    \/ \E list \in ConcLists : Build(list)
    \/ \E c \in Callers, term_string \in ConcQueries : SearchBegin(c, term_string)
    \/ \E c \in Callers : SearchLookup(c)
    \/ \E c \in Callers : RankBegin(c)
    \/ \E c \in Callers : RankFill(c)
    \/ \E c \in Callers : RankScore(c)
    \/ \E c \in Callers : RankRespond(c)

SpecConc == Init /\ [][NextConc]_vars

-----------------------------------------------------------------------------
(* One load of many records, then queries (main, lines 698-704)            *)

\* the most records of such a load
MaxCandidates == 150

ManyDigits == <<"a", "b", "c", "x", "y">>

\* the dn of the i-th record: four characters, distinct for distinct i
ManyUid(i) ==
    [k \in 1..4 |->
        ManyDigits[(((i - 1) \div (CASE k = 1 -> 125 [] k = 2 -> 25
                                      [] k = 3 -> 5 [] k = 4 -> 1)) % 5) + 1]]

\* the i-th record: class x with the attributes x, y and the value y when i
\* is odd, class y with the attribute x and the values x, y when i is even
ManyRecord(i) ==
    IF i % 2 = 1
      THEN [object_class |-> <<"x">>, attr |-> {<<"x">>, <<"y">>}, value |-> {<<"y">>},
            attr_value |-> {<< <<"x">>, <<"y">> >>, << <<"y">>, <<"y">> >>},
            uid |-> ManyUid(i)]
      ELSE [object_class |-> <<"y">>, attr |-> {<<"x">>}, value |-> {<<"x">>, <<"y">>},
            attr_value |-> {<< <<"x">>, <<"x">> >>}, uid |-> ManyUid(i)]

\* n records, fed in descending order of their dn
ManyList(n) == [i \in 1..n |-> ManyRecord(n + 1 - i)]

\* queries matching every record with one score, every other record, every
\* record with two scores, and none
ManyQueries ==
    {<<"x">>, <<"#", "x">>, <<"x", " ", "#", "x">>, <<"@", "c">>}

NextMany ==
    \/ \E n \in 0..MaxCandidates : bpc.done = <<>> /\ Build(ManyList(n))
    \/ \E term_string \in ManyQueries : Search(term_string)

SpecMany == Init /\ [][NextMany]_vars

-----------------------------------------------------------------------------
(* The session: set_login_credentials and accesses of the property, in any *)
(* order                                                                   *)

SetLoginCredentials(args, timeout) ==
    /\ sess' = set_login_credentials(sess, args, timeout)
    /\ UNCHANGED <<strng, parsed, index, searchables, bpc, call>>

AccessSession(outcome) ==
    /\ sess.accesses < MaxAccesses
    /\ sess' = session(sess, outcome)
    /\ UNCHANGED <<strng, parsed, index, searchables, bpc, call>>

NextSession ==
    \/ \E args \in ArgsSet, timeout \in Timeouts : SetLoginCredentials(args, timeout)
    \/ \E outcome \in LoginOutcomes : AccessSession(outcome)

SpecSession == Init /\ [][NextSession]_vars

-----------------------------------------------------------------------------
(* Queries whose tokens are separated by one space, two spaces or a tab    *)

SplitTokens == {<<"x">>, <<"=", "x">>, <<"#", "x", "*", "y">>}

Separators == {<<" ">>, <<" ", " ">>, <<Tab>>}

SplitQueries ==
    SplitTokens \cup {t1 \o sep \o t2 : t1 \in SplitTokens, t2 \in SplitTokens,
                                         sep \in Separators}

NextSplit ==
    \/ \E list \in SearchableLists : Build(list)
    \/ \E term_string \in SplitQueries : Search(term_string)

SpecSplit == Init /\ [][NextSplit]_vars

-----------------------------------------------------------------------------
(* Properties                                                              *)

\* the seven tables of an index
Tables(idx) ==
    <<idx.by_class, idx.by_attr, idx.by_value, idx.by_attr_value,
      idx.by_class_attr, idx.by_class_value, idx.by_class_attr_value>>

\* the index a build over list leaves when it starts from a new object
Fresh(list) == IndexFrom(NewIndex, list, 1)

\* caller c's call has returned (resp, total)
HasReturned(c) == call[c].at = "ended" /\ call[c].ret.raised = "none"
RespOf(c) == call[c].ret.value[1]
TotalOf(c) == call[c].ret.value[2]

\* C1: after a build over any record set, search with the empty string or
\* with spaces alone returns the empty list and 0 candidates and raises
\* nothing.
C1_EmptyQueryReturnsNothing ==
    (call[1].at = "ended" /\ \A i \in 1..Len(call[1].term_string) :
                               call[1].term_string[i] = " ")
        => call[1].ret = Returned(<< <<>>, 0 >>)

\* C2: what a search has looked up so far, while builds go on, is what the
\* complete tables of one build give: of the build published when the
\* search began or of one begun since.
C2_SearchSeesOneBuild ==
    call[1].at = "lookup"
        => \E list \in call[1].lists :
             call[1].unranked_results =
                 LookupAll(Fresh(list),
                           SubSeq(call[1].terms, 1, Len(call[1].unranked_results)))

\* C3: with no build in flight, a search whose steps interleave with those
\* of another search ends as it would alone: no error, and the value that
\* search gives on the built index.
C3_InterleavedSearchAsAlone ==
    \A c \in Callers :
        call[c].at = "ended"
            => call[c].ret = search(Fresh(bpc.done), call[c].term_string).ret

\* the rows of the disambiguation table, in priority order: which segments
\* are valid ("Y"), absent ("N") or either ("-"), and the Terms as
\* <<kind, slots, weight>>
DisambiguationTable ==
    << [c |-> "Y", a |-> "Y", v |-> "Y", y |-> "-",
        terms |-> << <<"cav", <<"c", "a", "v">>, 8>> >>],
       [c |-> "Y", a |-> "Y", v |-> "N", y |-> "Y",
        terms |-> << <<"cav", <<"c", "a", "y">>, 6>> >>],
       [c |-> "Y", a |-> "Y", v |-> "N", y |-> "N",
        terms |-> << <<"ca", <<"c", "a">>, 4>> >>],
       [c |-> "Y", a |-> "N", v |-> "Y", y |-> "Y",
        terms |-> << <<"cav", <<"c", "y", "v">>, 6>> >>],
       [c |-> "Y", a |-> "N", v |-> "Y", y |-> "N",
        terms |-> << <<"cv", <<"c", "v">>, 4>> >>],
       [c |-> "Y", a |-> "N", v |-> "N", y |-> "Y",
        terms |-> << <<"ca", <<"c", "y">>, 3>>, <<"cv", <<"c", "y">>, 3>> >>],
       [c |-> "N", a |-> "Y", v |-> "Y", y |-> "Y",
        terms |-> << <<"cav", <<"y", "a", "v">>, 6>> >>],
       [c |-> "N", a |-> "Y", v |-> "Y", y |-> "N",
        terms |-> << <<"av", <<"a", "v">>, 4>> >>],
       [c |-> "N", a |-> "Y", v |-> "N", y |-> "Y",
        terms |-> << <<"ca", <<"y", "a">>, 3>>, <<"av", <<"a", "y">>, 3>> >>],
       [c |-> "N", a |-> "N", v |-> "Y", y |-> "Y",
        terms |-> << <<"cv", <<"y", "v">>, 3>>, <<"av", <<"y", "v">>, 3>> >>],
       [c |-> "Y", a |-> "N", v |-> "N", y |-> "N",
        terms |-> << <<"c", <<"c">>, 2>> >>],
       [c |-> "N", a |-> "Y", v |-> "N", y |-> "N",
        terms |-> << <<"a", <<"a">>, 2>> >>],
       [c |-> "N", a |-> "N", v |-> "Y", y |-> "N",
        terms |-> << <<"v", <<"v">>, 2>> >>],
       [c |-> "N", a |-> "N", v |-> "N", y |-> "Y",
        terms |-> << <<"c", <<"y">>, 1>>, <<"a", <<"y">>, 1>>, <<"v", <<"y">>, 1>> >>],
       [c |-> "N", a |-> "N", v |-> "N", y |-> "N", terms |-> << >>] >>

\* the four segments of the token in hand, by facet
SegmentsOfToken ==
    LET ns == new_string(strng)
    IN  [c |-> build_search_term(class_escape, ns),
         a |-> build_search_term(attr_escape, ns),
         v |-> build_search_term(value_escape, ns),
         y |-> build_search_term(any_escape, ns)]

RowMatches(row, seg) ==
    \A f \in {"c", "a", "v", "y"} :
        \/ row[f] = "-"
        \/ row[f] = "Y" /\ seg[f].valid
        \/ row[f] = "N" /\ ~seg[f].valid

RowTerms(row, seg) ==
    [i \in 1..Len(row.terms) |->
        Term([j \in 1..Len(row.terms[i][2]) |-> seg[row.terms[i][2][j]].term_string],
             row.terms[i][1], row.terms[i][3])]

FirstMatchingRow(seg) ==
    DisambiguationTable[CHOOSE i \in 1..Len(DisambiguationTable) :
                          /\ RowMatches(DisambiguationTable[i], seg)
                          /\ \A j \in 1..(i - 1) : ~RowMatches(DisambiguationTable[j], seg)]

Parsed == parsed # NotCalled /\ strng # NoToken

Tenant == <<"T", "e", "n", "a", "n", "t">>

\* C5 as stated: "#Tenant*" parses to a ca and a cv, both keyed
\* ("Tenant", "") and of weight 3.
C5_TenantStarTwoTerms ==
    (Parsed /\ strng = <<"#">> \o Tenant \o <<"*">>)
        => parsed = Returned(<<Term(<<Tenant, <<>> >>, "ca", 3),
                               Term(<<Tenant, <<>> >>, "cv", 3)>>)

\* strng is '#', a run of other characters, and a closing '*'
ClassThenStar ==
    /\ Len(strng) >= 3
    /\ strng[1] = "#"
    /\ strng[Len(strng)] = "*"
    /\ \A i \in 2..(Len(strng) - 1) : strng[i] \notin MarkerChars

\* C5, amended: "#Tenant*", like every token made of '#', a class segment
\* and a '*' with nothing after it, parses to exactly one Term: kind c, keyed
\* by the class segment, weight 2 (the empty wildcard segment is not valid).
C5_ClassThenStarOneTerm ==
    (Parsed /\ ClassThenStar)
        => parsed = Returned(<<Term(<<SubSeq(strng, 2, Len(strng) - 1)>>, "c", 2)>>)

C5_Witness ==
    /\ Parsed
    /\ strng = <<"#">> \o Tenant \o <<"*">>
    /\ parsed = Returned(<<Term(<<Tenant>>, "c", 2)>>)

\* C6: a non-empty token with none of the characters # @ = * parses to
\* three Terms, of kinds c, a and v in this order, each of weight 1 and keyed
\* by the whole token.
C6_BareTokenIsWildcard ==
    (Parsed /\ Len(strng) > 0 /\ \A i \in 1..Len(strng) : strng[i] \notin MarkerChars)
        => parsed = Returned(<<Term(<<strng>>, "c", 1), Term(<<strng>>, "a", 1),
                               Term(<<strng>>, "v", 1)>>)

C6_Witness ==
    /\ Parsed
    /\ strng = <<"l", "e", "a", "f">>
    /\ Len(parsed.value) = 3

-----------------------------------------------------------------------------

\* the records of the last build
Built == {bpc.done[i] : i \in 1..Len(bpc.done)}

\* table holds the id of every record under every key the record exposes,
\* and holds no id under a key but that of a record exposing the key
TableIs(table, Keys(_)) ==
    /\ \A r \in Built : \A k \in Keys(r) : k \in DOMAIN table /\ r.uid \in table[k]
    /\ \A k \in DOMAIN table : \A id \in table[k] :
          \E r \in Built : r.uid = id /\ k \in Keys(r)

\* C7: after a build over R ended, the seven tables are complete and sound:
\* each record's id is under its class, each of its attributes, values and
\* pairs, alone and with the class; and every id under a key is that of a
\* record of R exposing the key.
C7_TablesCompleteAndSound ==
    LET ClassKeys(r) == {<<r.object_class>>}
        AttrKeys(r) == {<<a>> : a \in r.attr}
        ClassAttrKeys(r) == {<<r.object_class, a>> : a \in r.attr}
        ValueKeys(r) == {<<v>> : v \in r.value}
        ClassValueKeys(r) == {<<r.object_class, v>> : v \in r.value}
        AttrValueKeys(r) == r.attr_value
        ClassAttrValueKeys(r) == {<<r.object_class, p[1], p[2]>> : p \in r.attr_value}
    IN  bpc.at = "idle"
          => /\ TableIs(index.by_class, ClassKeys)
             /\ TableIs(index.by_attr, AttrKeys)
             /\ TableIs(index.by_class_attr, ClassAttrKeys)
             /\ TableIs(index.by_value, ValueKeys)
             /\ TableIs(index.by_class_value, ClassValueKeys)
             /\ TableIs(index.by_attr_value, AttrValueKeys)
             /\ TableIs(index.by_class_attr_value, ClassAttrValueKeys)

\* a build over two records of one class has ended
C7_Witness ==
    /\ bpc.at = "idle"
    /\ Len(bpc.done) = 2
    /\ bpc.done[1].object_class = bpc.done[2].object_class
    /\ Cardinality(index.by_class[<<bpc.done[1].object_class>>]) = 2

\* C8: a build on tables that held the records of an earlier build leaves
\* the tables a build on a new index leaves, and a search then returns what
\* it returns on that index.
C8_RebuildReplaces ==
    bpc.at = "idle"
        => /\ Tables(index) = Tables(Fresh(bpc.done))
           /\ call[1].at = "ended"
                => call[1].ret = search(Fresh(bpc.done), call[1].term_string).ret

\* a build over one record on tables that held records has ended, and a
\* search has returned that record
C8_Witness ==
    /\ bpc.at = "idle"
    /\ bpc.rebuilt
    /\ Len(bpc.done) = 1
    /\ HasReturned(1)
    /\ Len(RespOf(1)) = 1

-----------------------------------------------------------------------------

\* the pooled Terms of caller 1's query with their match sets, on the index
Pooled == LookupAll(index, get_terms(call[1].term_string).value)

\* the positions of the pooled Terms whose match set contains id
Hits(pooled, id) == {j \in 1..Len(pooled) : pooled[j].found.hit /\ id \in pooled[j].found.ids}

RECURSIVE SumPoints(_, _)
SumPoints(pooled, J) ==
    IF J = {} THEN 0
    ELSE LET j == CHOOSE k \in J : TRUE
         IN  pooled[j].term.points + SumPoints(pooled, J \ {j})

\* the score of id in the ranked items, 0 when id is no candidate
ScoreOn(items, id) == IF id \in DOMAIN items THEN items[id].pscore ELSE 0

\* every returned record carries the sum of the weights of the Terms that
\* matched it and the strings of their keys
ScoresAreSums ==
    HasReturned(1)
        => LET pooled == Pooled
               resp == RespOf(1)
           IN  \A i \in 1..Len(resp) :
                 LET hits == Hits(pooled, resp[i].uid)
                 IN  /\ resp[i].pscore = SumPoints(pooled, hits)
                     /\ resp[i].terms = {StrKey(pooled[j].term) : j \in hits}

\* the last pooled Term was added to the Terms before it and matches a
\* candidate they had
AddedTermMatches ==
    /\ HasReturned(1)
    /\ LET pooled == Pooled
       IN  /\ Len(pooled) >= 1
           /\ pooled[Len(pooled)].found.hit
           /\ pooled[Len(pooled)].found.ids
                  \cap MasterItems(SubSeq(pooled, 1, Len(pooled) - 1)) # {}

\* C9 as stated: scores are sums; and one more Term that matches a candidate
\* raises that candidate's score by the Term's weight and leaves the score
\* of every other candidate as it was.
C9_OtherScoresUnchanged ==
    /\ ScoresAreSums
    /\ AddedTermMatches
         => LET pooled == Pooled
                before == SubSeq(pooled, 1, Len(pooled) - 1)
                added == pooled[Len(pooled)]
                had == MasterItems(before)
                with == RankedItems(pooled)
                without == RankedItems(before)
            IN  \A x \in added.found.ids \cap had :
                  /\ ScoreOn(with, x) = ScoreOn(without, x) + added.term.points
                  /\ \A y \in had \ {x} : ScoreOn(with, y) = ScoreOn(without, y)

\* C9, amended: scores are sums; and one more Term raises by its weight the
\* score of every candidate in its match set and leaves the score of every
\* candidate outside its match set as it was.
C9_ScoresAreSumsAndAdditive ==
    /\ ScoresAreSums
    /\ AddedTermMatches
         => LET pooled == Pooled
                before == SubSeq(pooled, 1, Len(pooled) - 1)
                added == pooled[Len(pooled)]
                had == MasterItems(before)
                with == RankedItems(pooled)
                without == RankedItems(before)
            IN  /\ \A x \in added.found.ids \cap had :
                      ScoreOn(with, x) = ScoreOn(without, x) + added.term.points
                /\ \A y \in had \ added.found.ids :
                      ScoreOn(with, y) = ScoreOn(without, y)

\* a record matched by Terms of several weights has been returned, the last
\* Term having matched a candidate of the Terms before it and missed another
C9_Witness ==
    /\ AddedTermMatches
    /\ MasterItems(SubSeq(Pooled, 1, Len(Pooled) - 1)) \ Pooled[Len(Pooled)].found.ids # {}
    /\ \E i \in 1..Len(RespOf(1)) :
         /\ Cardinality(Hits(Pooled, RespOf(1)[i].uid)) >= 2
         /\ RespOf(1)[i].pscore >= 9

\* the lists with the records of list in every order
Reorderings(list) ==
    {[i \in 1..Len(list) |-> list[p[i]]] :
        p \in {q \in [1..Len(list) -> 1..Len(list)] :
                 \A i, j \in 1..Len(list) : q[i] = q[j] => i = j}}

\* C10: the returned list is in descending score, records of equal score in
\* ascending order of their ids as strings; and a build fed the same records
\* in any other order gives the same list.
C10_OrderedAndOrderFree ==
    HasReturned(1)
        => /\ \A i, j \in 1..Len(RespOf(1)) :
                i < j => \/ RespOf(1)[i].pscore > RespOf(1)[j].pscore
                         \/ /\ RespOf(1)[i].pscore = RespOf(1)[j].pscore
                            /\ StrLess(RespOf(1)[i].uid, RespOf(1)[j].uid)
           /\ \A list \in Reorderings(bpc.done) :
                search(Fresh(list), call[1].term_string).ret = call[1].ret

\* two records of equal score have been returned after a build that was fed
\* the one of the greater id first
C10_Witness ==
    /\ HasReturned(1)
    /\ Len(bpc.done) >= 2
    /\ StrLess(bpc.done[2].uid, bpc.done[1].uid)
    /\ \E i, j \in 1..Len(RespOf(1)) :
         /\ i < j
         /\ RespOf(1)[i].pscore = RespOf(1)[j].pscore
         /\ {RespOf(1)[i].uid, RespOf(1)[j].uid} = {bpc.done[1].uid, bpc.done[2].uid}

-----------------------------------------------------------------------------

\* C11: the total is the number of distinct ids in the union of the match
\* sets of the Terms that hit; the returned list has min(100, total) records,
\* each a candidate, none twice, in sorted order, and every candidate left
\* out comes after every returned one in that order (lower score, or equal
\* score and greater id).
C11_TotalAndFirstHundred ==
    HasReturned(1)
        => LET pooled == Pooled
               candidates == MasterItems(pooled)
               total == Cardinality(candidates)
               resp == RespOf(1)
               returned == {resp[i].uid : i \in 1..Len(resp)}
               scores == RankedItems(pooled)
               Before(s1, u1, s2, u2) == s1 > s2 \/ (s1 = s2 /\ StrLess(u1, u2))
           IN  /\ TotalOf(1) = total
               /\ Len(resp) = (IF total < 100 THEN total ELSE 100)
               /\ returned \subseteq candidates
               /\ Cardinality(returned) = Len(resp)
               /\ \A i \in 1..Len(resp) : resp[i].pscore = scores[resp[i].uid].pscore
               /\ \A i \in 1..(Len(resp) - 1) :
                     Before(resp[i].pscore, resp[i].uid,
                            resp[i + 1].pscore, resp[i + 1].uid)
               /\ \A c \in candidates \ returned :
                     Before(resp[Len(resp)].pscore, resp[Len(resp)].uid,
                            scores[c].pscore, c)

\* a query with 150 candidates of two scores has returned 100 records and
\* the total 150
C11_Witness ==
    /\ HasReturned(1)
    /\ TotalOf(1) = 150
    /\ Len(RespOf(1)) = 100
    /\ RespOf(1)[1].pscore > RespOf(1)[100].pscore
    /\ RespOf(1)[100].uid = ManyUid(50)

-----------------------------------------------------------------------------

\* the tokens of caller 1's query
TokensOf(term_string) == split(strip(term_string), <<>>)

\* the tokens of a list that yield Terms
RECURSIVE WithTerms(_)
WithTerms(tokens) ==
    IF Len(tokens) = 0 THEN <<>>
    ELSE IF parse_input(Head(tokens)) = Returned(<<>>) THEN WithTerms(Tail(tokens))
    ELSE <<Head(tokens)>> \o WithTerms(Tail(tokens))

\* the entries of a pooled list whose lookup hit
RECURSIVE HitsOnly(_)
HitsOnly(pooled) ==
    IF Len(pooled) = 0 THEN <<>>
    ELSE IF Head(pooled).found.hit THEN <<Head(pooled)>> \o HitsOnly(Tail(pooled))
    ELSE HitsOnly(Tail(pooled))

\* C12: a search whose tokens are all non-empty raises nothing; a lone
\* marker yields no Terms; the value returned is the one the Terms that hit
\* give alone (a miss adds no candidate and no score) and the one the query
\* without its term-less tokens gives; and when no Term hits it is the empty
\* list with the total 0.
C12_MissesAndTermlessTokensAddNothing ==
    (call[1].at = "ended" /\ \A i \in 1..Len(TokensOf(call[1].term_string)) :
                               Len(TokensOf(call[1].term_string)[i]) > 0)
        => LET tokens == TokensOf(call[1].term_string)
               kept == WithTerms(tokens)
               pooled == Pooled
           IN  /\ call[1].ret.raised = "none"
               /\ \A i \in 1..Len(tokens) :
                     (\A j \in 1..Len(tokens[i]) : tokens[i][j] \in MarkerChars
                                                       /\ Len(tokens[i]) = 1)
                         => parse_input(tokens[i]) = Returned(<<>>)
               /\ call[1].ret = Returned(Respond(RankedItems(HitsOnly(pooled))))
               /\ (Len(kept) > 0 /\ Join(kept) # call[1].term_string)
                     => call[1].ret = search(index, Join(kept)).ret
               /\ (\A i \in 1..Len(pooled) : ~pooled[i].found.hit)
                     => call[1].ret = Returned(<< <<>>, 0 >>)

\* a query with a lone marker, a Term that misses and a Term that hits has
\* returned a record
C12_Witness ==
    /\ HasReturned(1)
    /\ \E i \in 1..Len(TokensOf(call[1].term_string)) :
          TokensOf(call[1].term_string)[i] = <<"#">>
    /\ \E i \in 1..Len(Pooled) : ~Pooled[i].found.hit
    /\ Len(RespOf(1)) >= 1

-----------------------------------------------------------------------------

\* C13: an access of the session property raises LoginError or returns a
\* session whose login succeeded (so an access after one that raised
\* LoginError on a response not ok logs in again and does not return the
\* failed session); and the access next after set_login_credentials logs in
\* afresh whenever there is a login name.
C13_AccessLogsInOrRaises ==
    sess.op = "session"
        => /\ \/ sess.ret.raised = "LoginError"
              \/ sess.ret.raised = "none" /\ sess.ret.value.logged_in
           /\ sess.ret.raised = "none"
                 => /\ sess.ret.value.url = sess.args.url
                    /\ sess.ret.value.login = sess.args.login
                    /\ sess.ret.value.password = sess.args.password

\* an access has returned, without logging in, a session whose login had
\* ended with a response not ok
C13_FailedSessionReturned ==
    /\ sess.op = "session"
    /\ sess.ret.raised = "none"
    /\ ~sess.ret.value.logged_in
    /\ ~sess.login_called

-----------------------------------------------------------------------------

\* the non-empty pieces of s between runs of whitespace
RECURSIVE WhitespaceTokens(_, _)
WhitespaceTokens(s, cur) ==
    IF Len(s) = 0 THEN (IF Len(cur) = 0 THEN <<>> ELSE <<cur>>)
    ELSE IF s[1] \in Whitespace
      THEN (IF Len(cur) = 0 THEN <<>> ELSE <<cur>>) \o WhitespaceTokens(Tail(s), <<>>)
      ELSE WhitespaceTokens(Tail(s), Append(cur, s[1]))

\* C14: for a query with tokens between runs of whitespace, no error is
\* raised, the pooled Terms are parse(token) over the non-empty tokens in
\* order, and the value returned is that of the same tokens with single
\* spaces between them.
C14_SplitsOnWhitespace ==
    LET tokens == WhitespaceTokens(call[1].term_string, <<>>)
    IN  (call[1].at = "ended" /\ Len(tokens) > 0)
          => /\ call[1].ret.raised = "none"
             /\ get_terms(call[1].term_string) = ExtendAll(tokens, <<>>)
             /\ call[1].ret = search(index, Join(tokens)).ret

-----------------------------------------------------------------------------

\* the occurrences of the character m in s that are immediately followed by
\* a character that is no marker
FollowedOccurrences(m, s) ==
    {i \in 1..(Len(s) - 1) : s[i] = m /\ s[i + 1] \notin MarkerChars}

\* the longest piece of s after position i with no marker in it
MaximalRunAfter(s, i) ==
    LET k == CHOOSE n \in 0..(Len(s) - i) :
                 /\ \A j \in (i + 1)..(i + n) : s[j] \notin MarkerChars
                 /\ i + n = Len(s) \/ s[i + n + 1] \in MarkerChars
    IN  SubSeq(s, i + 1, i + k)

\* valid iff some occurrence of the marker is followed by a character that
\* is no marker; the segment is then the maximal run after the leftmost
\* such occurrence, and is empty otherwise
SegmentAsStated(escape_char, s) ==
    LET occ == FollowedOccurrences(EscapeLiteral(escape_char), s)
    IN  IF occ = {} THEN [valid |-> FALSE, term_string |-> <<>>]
        ELSE [valid |-> TRUE,
              term_string |-> MaximalRunAfter(s, CHOOSE i \in occ : \A j \in occ : i <= j)]

\* C15: for each of the four markers, build_search_term gives, on the token
\* as written and on the string parse_input hands it (the token, with '*' in
\* front unless it begins with '#', '@' or '='), valid iff some occurrence of
\* the marker is immediately followed by a non-marker character, with the
\* maximal run after the leftmost such occurrence as the segment, and
\* otherwise invalid with the empty segment.
C15_SegmentOfLeftmostFollowedMarker ==
    (Parsed /\ Len(strng) > 0)
        => \A escape_char \in {class_escape, attr_escape, value_escape, any_escape} :
             /\ build_search_term(escape_char, strng)
                    = SegmentAsStated(escape_char, strng)
             /\ build_search_term(escape_char, new_string(strng))
                    = SegmentAsStated(escape_char, new_string(strng))

\* a token that begins with '*' and holds '#' three times has been parsed:
\* its class segment is the run after the second '#', the first followed '#'
C15_Witness ==
    /\ Parsed
    /\ strng = <<"*", "#", "#", "x", "#", "x", "x">>
    /\ build_search_term(class_escape, new_string(strng)) =
           [valid |-> TRUE, term_string |-> <<"x">>]
    /\ parsed = Returned(<<Term(<<"x">>, "c", 2)>>)

=============================================================================
